---- MODULE Spec2Model ----
(***************************************************************************)
(* SnapBackup (snapback.py): snapshot-style backups with rsync and hard    *)
(* links.  One invocation of main() is a process that walks through the    *)
(* lock steps, sync() (the Builder) and rotate() (the Rotator).  The       *)
(* destination root, the lock files and the source tree are shared by all  *)
(* invocations.                                                            *)
(*                                                                         *)
(* Strings are sequences of one-character strings, so that formatting,     *)
(* globbing and sorted() are computed character by character.              *)
(***************************************************************************)
EXTENDS Integers, Sequences, FiniteSets, TLC

\* ------------------------------------------------------------------ bounds

\* Wall-clock hours after 2026-01-01 00:00:00 that the model's clock reaches.
MaxClock == 24
\* Invocations of main() in one behaviour of the sequential specification.
MaxRuns == 3
\* The same two bounds for the concurrent specification.
MaxConcClock == 6
MaxConcRuns == 3

\* ------------------------------------------------------------------ inputs

None == "none"

\* Hours that may have passed between two readings of the clock: none (the
\* same second) or six (a cron-like schedule).
Elapsed == {0, 6}

\* --name and --tag values: sanitized (no '/', no '_', no glob characters).
Names == {<<"a">>, <<"b">>}
Tags == {<<"d">>, <<"h">>}
\* --keep values: negative, the default 0, and two retention counts.
Keeps == {-1, 0, 1, 2}

\* Files of the source tree and their possible contents.
Files == {"a.txt", "b.txt"}
Data == {"v1", "v2"}
\* The files the user edits between runs.
Edited == {"b.txt"}

\* Return codes of the external commands: killed by a signal (negative),
\* success, and the error code of each tool.
CpCodes == {-9, 0, 1}
RsyncCodes == {-9, 0, 23}
\* What an external command has done to its target when it ends: all of its
\* work, or, when it fails, nothing or only the creation of the directory.
Outcomes == {"nothing", "partial", "all"}

\* The inputs the sequential specification draws from: one backup name, every
\* tag and retention count, every return code.
SeqInputs ==
    [runs |-> MaxRuns, until |-> MaxClock, names |-> {<<"a">>}, tags |-> Tags,
     keeps |-> Keeps, cp |-> CpCodes, rsync |-> RsyncCodes]

\* The inputs the concurrent specification draws from: both backup names, one
\* tag, retention off or one generation, commands that succeed or report an
\* error.
ConcInputs ==
    [runs |-> MaxConcRuns, until |-> MaxConcClock, names |-> Names,
     tags |-> {<<"d">>}, keeps |-> {0, 1}, cp |-> {0, 1}, rsync |-> {0, 23}]

\* ------------------------------------------------------ strings and sorting

Max(a, b) == IF a >= b THEN a ELSE b
Min(a, b) == IF a <= b THEN a ELSE b

\* The characters the model uses, in ASCII order.
CharOrder ==
    <<"0", "1", "2", "3", "4", "5", "6", "7", "8", "9", "_",
      "a", "b", "c", "d", "h", "k", "n", "p", "s">>

Ord(c) == CHOOSE i \in 1..Len(CharOrder) : CharOrder[i] = c

Digit(n) == CharOrder[n + 1]

TwoDigits(n) == <<Digit(n \div 10), Digit(n % 10)>>

FourDigits(n) == TwoDigits(n \div 100) \o TwoDigits(n % 100)

\* Python's comparison of two strings: the first differing character decides,
\* and a proper prefix is smaller.
RECURSIVE StrLess(_, _)
StrLess(a, b) ==
    IF a = <<>> THEN b # <<>>
    ELSE IF b = <<>> THEN FALSE
    ELSE IF Head(a) = Head(b) THEN StrLess(Tail(a), Tail(b))
    ELSE Ord(Head(a)) < Ord(Head(b))

\* sorted(): the ascending list of a set of strings.
RECURSIVE Sorted(_)
Sorted(S) ==
    IF S = {} THEN <<>>
    ELSE LET least == CHOOSE x \in S : \A y \in S \ {x} : StrLess(x, y)
         IN  <<least>> \o Sorted(S \ {least})

\* list[:stop] of Python, for any integer stop.
PySliceTo(list, stop) ==
    LET n == Len(list)
        e == IF stop < 0 THEN Max(n + stop, 0) ELSE Min(stop, n)
    IN  SubSeq(list, 1, e)

\* --------------------------------------------------------------- wall clock

\* Local time at clock value t (hours after 2026-01-01 00:00:00).
Year(t) == 2026
Month(t) == 1
Day(t) == 1 + (t \div 24)
Hour(t) == t % 24
\* strftime's %I: the hour of the 12-hour clock, 01..12.
Hour12(t) == IF Hour(t) % 12 = 0 THEN 12 ELSE Hour(t) % 12

\* time.strftime("%Y%m%d%I%M%S")
Timestamp(t) ==
    FourDigits(Year(t)) \o TwoDigits(Month(t)) \o TwoDigits(Day(t))
        \o TwoDigits(Hour12(t)) \o TwoDigits(0) \o TwoDigits(0)

\* time.strftime("%Y%m%d_%I%M%S")
DateStamp(t) ==
    FourDigits(Year(t)) \o TwoDigits(Month(t)) \o TwoDigits(Day(t)) \o <<"_">>
        \o TwoDigits(Hour12(t)) \o TwoDigits(0) \o TwoDigits(0)

\* ------------------------------------------------------------ path names

Prefix == <<"s", "n", "a", "p", "b", "a", "c", "k", "_">>

\* "snapback_{}_{}_{}".format(name, timestamp, tag)
SnapshotName(name, timestamp, tag) ==
    Prefix \o name \o <<"_">> \o timestamp \o <<"_">> \o tag

\* Mutant of GlobMatch: the pattern does not hold the backup name.
GlobMatchAnyName(name, tag, path) ==
    LET pre == Prefix
        suf == <<"_">> \o tag
    IN  /\ Len(path) >= Len(pre) + Len(suf)
        /\ SubSeq(path, 1, Len(pre)) = pre
        /\ SubSeq(path, Len(path) - Len(suf) + 1, Len(path)) = suf

\* glob of "snapback_{}_*_{}".format(name, tag): '*' matches any run of
\* characters, the rest matches literally.
GlobMatch(name, tag, path) ==
    LET pre == Prefix \o name \o <<"_">>
        suf == <<"_">> \o tag
    IN  /\ Len(path) >= Len(pre) + Len(suf)
        /\ SubSeq(path, 1, Len(pre)) = pre
        /\ SubSeq(path, Len(path) - Len(suf) + 1, Len(path)) = suf

\* -------------------------------------------------------------------- state

\* Process slots: each runs one invocation of main() at a time.
NumProcs == 2
Procs == 1..NumProcs

VARIABLES
    clock,      \* wall-clock time at its last reading, in hours after
                \* 2026-01-01 00:00:00
    src,        \* the source tree: file -> content, or None
    dest,       \* the destination root: "absent", "file" or "dir"
    snaps,      \* the directories under the destination root, by name
    built,      \* names of the generations on disk whose sync() returned 0
                \* (history)
    lockfile,   \* /tmp/snapback_<name>.lock: name -> inode, 0 when absent
    held,       \* lockf locks: pairs <<inode, process>>
    ninodes,    \* lock-file inodes created so far
    nruns,      \* invocations started so far
    proc        \* per process: position in main() and its local variables

vars == <<clock, src, dest, snaps, built, lockfile, held, ninodes, nruns, proc>>

\* A file that is not there.
Absent == [ino |-> <<>>, data |-> None]

\* A process slot before its first invocation.
IdleProc ==
    [pc |-> "idle", run |-> 0, name |-> <<>>, tag |-> <<>>, keep |-> 0,
     fd |-> 0, at |-> 0, current_snapshot |-> <<>>, last_snapshot |-> <<>>,
     snapshots_list |-> <<>>, delete_list |-> <<>>, result |-> 0, res |-> 0,
     status |-> 0, delerr |-> FALSE]

Init ==
    /\ clock = 0
    /\ src = [f \in Files |-> "v1"]
    /\ dest \in {"absent", "file"}
    /\ snaps = <<>>
    /\ built = {}
    /\ lockfile = [n \in Names |-> 0]
    /\ held = {}
    /\ ninodes = 0
    /\ nruns = 0
    /\ proc = [p \in Procs |-> IdleProc]

\* ------------------------------------------------------------- environment

\* The times the clock may show at its next reading, up to `until`.
Now(until) == {t \in clock..Max(clock, until) : t - clock \in Elapsed}

\* The user changes, creates or deletes one file of the source tree.
EditSource ==
    /\ \E f \in Edited, v \in Data \cup {None} :
        /\ v # src[f]
        /\ src' = [src EXCEPT ![f] = v]
    /\ UNCHANGED <<clock, dest, snaps, built, lockfile, held, ninodes, nruns, proc>>

\* ------------------------------------------------------ file-system helpers

\* The directory table with directory `path` set to `dir` (created if new).
WithDir(table, path, dir) ==
    [P \in DOMAIN table \cup {path} |-> IF P = path THEN dir ELSE table[P]]

\* The directory table without directory `path`.
WithoutDir(table, path) ==
    [P \in DOMAIN table \ {path} |-> table[P]]

\* A directory just created by process record `me`, holding no entry.
NewDir(me) ==
    [files |-> [f \in Files |-> Absent], marks |-> {}, sub |-> {},
     born |-> me.at, owner |-> <<me.name, me.tag>>]

\* The entries under the destination root that the glob of (name, tag) lists.
Glob(name, tag) ==
    {P \in DOMAIN snaps : GlobMatch(name, tag, P)}

\* What "cp -a -l last current" leaves behind when it has done all its work:
\* a new directory whose files are hard links to the files of `last`; when
\* `current` is already a directory, the copy of `last` lands inside it.
CpAll(me) ==
    LET last == me.last_snapshot
        cur == me.current_snapshot
    IN  IF cur \in DOMAIN snaps
        THEN [snaps EXCEPT ![cur].sub = @ \cup
                 {[base |-> last, files |-> snaps[last].files,
                   marks |-> snaps[last].marks]}]
        ELSE WithDir(snaps, cur,
                 [NewDir(me) EXCEPT !.files = snaps[last].files,
                                    !.marks = snaps[last].marks])

\* What a stopped command that had only created its target leaves behind.
OnlyDir(me) ==
    IF me.current_snapshot \in DOMAIN snaps
    THEN snaps
    ELSE WithDir(snaps, me.current_snapshot, NewDir(me))

\* One file after "rsync -a --delete source/ current/": gone when the source
\* has none, left alone (same inode) when its content equals the source's,
\* otherwise written to a new inode that replaces the old entry.
MirrorFile(me, old, f) ==
    IF src[f] = None THEN Absent
    ELSE IF old.data = src[f] THEN old
    ELSE [ino |-> <<me.run, f>>, data |-> src[f]]

\* What rsync leaves behind when it has done all its work: every file
\* mirrored, and every entry the source does not have (the sentinel of the
\* cloned predecessor, a nested directory) deleted.
RsyncAll(me) ==
    LET cur == me.current_snapshot
        old == IF cur \in DOMAIN snaps THEN snaps[cur] ELSE NewDir(me)
    IN  WithDir(snaps, cur,
            [old EXCEPT !.files = [f \in Files |-> MirrorFile(me, old.files[f], f)],
                        !.marks = {},
                        !.sub = {}])

\* ------------------------------------------------------------------ main()

\* The process record of p with the given fields changed.
Goto(p, pc) == [proc EXCEPT ![p].pc = pc]

\* Mutant of Exit: the lockf lock of a process outlives it.
ExitKeepsLock(p, code) ==
    /\ proc' = [proc EXCEPT ![p] =
                    [IdleProc EXCEPT !.pc = "done", !.status = code,
                                     !.res = proc[p].res]]
    /\ held' = held

\* The process ends with exit status `code`: its memory is gone, its
\* descriptor is closed and its lockf lock is dropped by the kernel.  The lock
\* file stays where it is.  What the run returned stays on record.
Exit(p, code) ==
    /\ proc' = [proc EXCEPT ![p] =
                    [IdleProc EXCEPT !.pc = "done", !.status = code,
                                     !.res = proc[p].res]]
    /\ held' = {h \in held : h[2] # p}

\* A new invocation on a Linux host: parse_args().
Start(p, in) ==
    /\ proc[p].pc \in {"idle", "done"}
    /\ nruns < in.runs
    /\ nruns' = nruns + 1
    /\ \E name \in in.names, tag \in in.tags, keep \in in.keeps :
        proc' = [proc EXCEPT ![p] =
                    [IdleProc EXCEPT !.pc = "open", !.run = nruns + 1,
                                     !.name = name, !.tag = tag, !.keep = keep]]
    /\ UNCHANGED <<clock, src, dest, snaps, built, lockfile, held, ninodes>>

\* platform.system() is not "linux": main() logs an error and sys.exit(1)
\* before it parses its arguments.
NotLinux(p, in) ==
    /\ proc[p].pc \in {"idle", "done"}
    /\ nruns < in.runs
    /\ nruns' = nruns + 1
    /\ proc' = [proc EXCEPT ![p] = [IdleProc EXCEPT !.pc = "done", !.status = 1]]
    /\ UNCHANGED <<clock, src, dest, snaps, built, lockfile, held, ninodes>>

\* fp = open(lock_file, "w"): creates the file when the path has none.
Open(p) ==
    /\ proc[p].pc = "open"
    /\ LET name == proc[p].name
       IN  IF lockfile[name] = 0
           THEN /\ ninodes' = ninodes + 1
                /\ lockfile' = [lockfile EXCEPT ![name] = ninodes + 1]
                /\ proc' = [proc EXCEPT ![p].pc = "lockf", ![p].fd = ninodes + 1]
           ELSE /\ proc' = [proc EXCEPT ![p].pc = "lockf", ![p].fd = lockfile[name]]
                /\ UNCHANGED <<lockfile, ninodes>>
    /\ UNCHANGED <<clock, src, dest, snaps, built, held, nruns>>

\* Another process holds a lock on the inode this process opened.
Locked(p) == \E h \in held : h[1] = proc[p].fd /\ h[2] # p

\* fcntl.lockf(fp, LOCK_EX | LOCK_NB) succeeds.
Lockf(p) ==
    /\ proc[p].pc = "lockf"
    /\ ~Locked(p)
    /\ held' = held \cup {<<proc[p].fd, p>>}
    /\ proc' = Goto(p, "dest")
    /\ UNCHANGED <<clock, src, dest, snaps, built, lockfile, ninodes, nruns>>

\* fcntl.lockf raises IOError: "Backup operation skipped", sys.exit(1).
LockFail(p) ==
    /\ proc[p].pc = "lockf"
    /\ Locked(p)
    /\ Exit(p, 1)
    /\ UNCHANGED <<clock, src, dest, snaps, built, lockfile, ninodes, nruns>>

\* The destination root is created when it does not exist.
DestOk(p) ==
    /\ proc[p].pc = "dest"
    /\ dest # "file"
    /\ dest' = "dir"
    /\ proc' = Goto(p, "sync")
    /\ UNCHANGED <<clock, src, snaps, built, lockfile, held, ninodes, nruns>>

\* The destination exists and is not a directory: sys.exit(1).
DestInvalid(p) ==
    /\ proc[p].pc = "dest"
    /\ dest = "file"
    /\ Exit(p, 1)
    /\ UNCHANGED <<clock, src, dest, snaps, built, lockfile, ninodes, nruns>>

\* ------------------------------------------------------------------ sync()

\* timestamp, current_snapshot, the glob and its sorted list; the last entry
\* of the list, if any, is last_snapshot.
SyncStart(p, in) ==
    /\ proc[p].pc = "sync"
    /\ clock' \in Now(in.until)
    /\ LET me == proc[p]
           list == Sorted(Glob(me.name, me.tag))
       IN  proc' = [proc EXCEPT
               ![p].at = clock',
               ![p].current_snapshot = SnapshotName(me.name, Timestamp(clock'), me.tag),
               ![p].snapshots_list = list,
               ![p].last_snapshot = IF Len(list) > 0 THEN list[Len(list)] ELSE <<>>,
               ![p].pc = IF Len(list) > 0 THEN "cp" ELSE "rsync"]
    /\ UNCHANGED <<src, dest, snaps, built, lockfile, held, ninodes, nruns>>

\* sync() gives up after a command when its return code is positive.
Failed(result) == result > 0

\* launch_command(["cp", "-a", "-l", last_snapshot, current_snapshot]).  cp
\* refuses to copy a directory into itself, and fails on a missing one.
Cp(p, in) ==
    /\ proc[p].pc = "cp"
    /\ LET me == proc[p]
       IN  \E rc \in in.cp, out \in Outcomes :
            /\ rc = 0 <=> out = "all"
            /\ (me.last_snapshot = me.current_snapshot
                    \/ me.last_snapshot \notin DOMAIN snaps)
                  => (rc = 1 /\ out = "nothing")
            /\ snaps' = CASE out = "all" -> CpAll(me)
                          [] out = "partial" -> OnlyDir(me)
                          [] OTHER -> snaps
            /\ proc' = [proc EXCEPT
                    ![p].result = rc,
                    ![p].res = IF Failed(rc) THEN rc ELSE @,
                    ![p].pc = IF Failed(rc) THEN "rotate" ELSE "rsync"]
    /\ UNCHANGED <<clock, src, dest, built, lockfile, held, ninodes, nruns>>

\* launch_command(["rsync", "-va", "--human-readable", "--delete",
\* "--delete-excluded", source, current_snapshot]).
Rsync(p, in) ==
    /\ proc[p].pc = "rsync"
    /\ LET me == proc[p]
       IN  \E rc \in in.rsync, out \in Outcomes :
            /\ rc = 0 <=> out = "all"
            /\ snaps' = CASE out = "all" -> RsyncAll(me)
                          [] out = "partial" -> OnlyDir(me)
                          [] OTHER -> snaps
            /\ proc' = [proc EXCEPT
                    ![p].result = rc,
                    ![p].res = IF Failed(rc) THEN rc ELSE @,
                    ![p].pc = IF Failed(rc) THEN "rotate" ELSE "touch"]
    /\ UNCHANGED <<clock, src, dest, built, lockfile, held, ninodes, nruns>>

\* touch(current_snapshot), then touch(date_file): the completion sentinel
\* "_backup_<date>" is created in the generation, and sync() returns 0.
Touch(p, in) ==
    /\ proc[p].pc = "touch"
    /\ proc[p].current_snapshot \in DOMAIN snaps
    /\ clock' \in Now(in.until)
    /\ snaps' = [snaps EXCEPT ![proc[p].current_snapshot].marks =
                                  @ \cup {DateStamp(clock')}]
    /\ built' = built \cup {proc[p].current_snapshot}
    /\ proc' = [proc EXCEPT ![p].res = 0, ![p].pc = "rotate"]
    /\ UNCHANGED <<src, dest, lockfile, held, ninodes, nruns>>

\* touch() of a generation directory that does not exist: open(path, 'a')
\* of a path ending in '/' raises, and the process dies with status 1.
TouchMissing(p) ==
    /\ proc[p].pc = "touch"
    /\ proc[p].current_snapshot \notin DOMAIN snaps
    /\ Exit(p, 1)
    /\ UNCHANGED <<clock, src, dest, snaps, built, lockfile, ninodes, nruns>>

\* ---------------------------------------------------------------- rotate()

\* Mutant of RotateNoop: only the default 0 means unlimited retention.
RotateNoopOnlyZero(keep) == keep = 0

\* "if keep < 1: return"
RotateNoop(keep) == keep < 1

\* Mutant of DeleteList: the slice keeps one generation too many.
DeleteListOffByOne(snapshots_list, keep) == PySliceTo(snapshots_list, -(keep + 1))

\* delete_list = snapshots_list[:-keep]
DeleteList(snapshots_list, keep) == PySliceTo(snapshots_list, -keep)

\* main() calls rotate() whatever sync() returned.  rotate() returns at once
\* or lists the generations and picks the ones to delete.
Rotate(p) ==
    /\ proc[p].pc = "rotate"
    /\ LET me == proc[p]
           list == Sorted(Glob(me.name, me.tag))
       IN  IF RotateNoop(me.keep)
           THEN proc' = [proc EXCEPT ![p].snapshots_list = <<>>,
                                     ![p].delete_list = <<>>,
                                     ![p].pc = "remove"]
           ELSE proc' = [proc EXCEPT ![p].snapshots_list = list,
                                     ![p].delete_list = DeleteList(list, me.keep),
                                     ![p].pc = "rmtree"]
    /\ UNCHANGED <<clock, src, dest, snaps, built, lockfile, held, ninodes, nruns>>

\* shutil.rmtree(snapshot) of the next entry of delete_list.
Rmtree(p) ==
    /\ proc[p].pc = "rmtree"
    /\ proc[p].delete_list # <<>>
    /\ Head(proc[p].delete_list) \in DOMAIN snaps
    /\ snaps' = WithoutDir(snaps, Head(proc[p].delete_list))
    /\ built' = built \ {Head(proc[p].delete_list)}
    /\ proc' = [proc EXCEPT ![p].delete_list = Tail(@)]
    /\ UNCHANGED <<clock, src, dest, lockfile, held, ninodes, nruns>>

\* shutil.rmtree raises (permission denied, or the directory is gone): nothing
\* catches it, so the process dies with a traceback and status 1.
RmtreeError(p) ==
    /\ proc[p].pc = "rmtree"
    /\ proc[p].delete_list # <<>>
    /\ held' = {h \in held : h[2] # p}
    /\ proc' = [proc EXCEPT ![p] =
                    [IdleProc EXCEPT !.pc = "done", !.status = 1, !.delerr = TRUE,
                                     !.res = proc[p].res]]
    /\ UNCHANGED <<clock, src, dest, snaps, built, lockfile, ninodes, nruns>>

\* The loop over delete_list is over: rotate() returns.
RotateEnd(p) ==
    /\ proc[p].pc = "rmtree"
    /\ proc[p].delete_list = <<>>
    /\ proc' = Goto(p, "remove")
    /\ UNCHANGED <<clock, src, dest, snaps, built, lockfile, held, ninodes, nruns>>

\* ------------------------------------------------------------ end of main()

\* os.remove(lock_file)
Remove(p) ==
    /\ proc[p].pc = "remove"
    /\ lockfile[proc[p].name] # 0
    /\ lockfile' = [lockfile EXCEPT ![proc[p].name] = 0]
    /\ proc' = Goto(p, "exit")
    /\ UNCHANGED <<clock, src, dest, snaps, built, held, ninodes, nruns>>

\* os.remove of a lock file that another invocation has removed raises.
RemoveMissing(p) ==
    /\ proc[p].pc = "remove"
    /\ lockfile[proc[p].name] = 0
    /\ Exit(p, 1)
    /\ UNCHANGED <<clock, src, dest, snaps, built, lockfile, ninodes, nruns>>

\* sys.exit(res)
SysExit(p) ==
    /\ proc[p].pc = "exit"
    /\ Exit(p, proc[p].res)
    /\ UNCHANGED <<clock, src, dest, snaps, built, lockfile, ninodes, nruns>>

\* ---------------------------------------------------------- specifications

\* Invocations one after the other (a single cron line): one process slot.
Next ==
    \/ EditSource
    \/ NotLinux(1, SeqInputs)
    \/ Start(1, SeqInputs)
    \/ Open(1)
    \/ Lockf(1)
    \/ DestOk(1)
    \/ DestInvalid(1)
    \/ SyncStart(1, SeqInputs)
    \/ Cp(1, SeqInputs)
    \/ Rsync(1, SeqInputs)
    \/ Touch(1, SeqInputs)
    \/ TouchMissing(1)
    \/ Rotate(1)
    \/ Rmtree(1)
    \/ RmtreeError(1)
    \/ RotateEnd(1)
    \/ Remove(1)
    \/ SysExit(1)

Spec == Init /\ [][Next]_vars

\* Overlapping invocations of an unchanging source tree: every process slot
\* runs, in any interleaving.
NextConc ==
    \/ \E p \in Procs :
        \/ NotLinux(p, ConcInputs)
        \/ Start(p, ConcInputs)
        \/ Open(p)
        \/ Lockf(p)
        \/ LockFail(p)
        \/ DestOk(p)
        \/ DestInvalid(p)
        \/ SyncStart(p, ConcInputs)
        \/ Cp(p, ConcInputs)
        \/ Rsync(p, ConcInputs)
        \/ Touch(p, ConcInputs)
        \/ TouchMissing(p)
        \/ Rotate(p)
        \/ Rmtree(p)
        \/ RmtreeError(p)
        \/ RotateEnd(p)
        \/ Remove(p)
        \/ RemoveMissing(p)
        \/ SysExit(p)

SpecConc == Init /\ [][NextConc]_vars

\* -------------------------------------------------------------- properties

\* The generations on disk that were created for (name, tag).
Generations(name, tag) ==
    {P \in DOMAIN snaps : snaps[P].owner = <<name, tag>>}

\* Process p is executing the Builder or the Rotator.
Working(p) == proc[p].pc \in {"sync", "cp", "rsync", "touch", "rotate", "rmtree"}

\* C1: mutual exclusion.  Two invocations with the same name are never both
\* executing the Builder or the Rotator.
MutualExclusion ==
    \A p, q \in Procs :
        (p # q /\ proc[p].name = proc[q].name /\ Working(p)) => ~Working(q)

\* C2: chronological chain.  Of two generations of the same (name, tag), the
\* one created at the earlier wall-clock time has the smaller name under the
\* sort, so that the last entry of the sorted list is the most recent one.
ChronologicalChain ==
    \A P, Q \in DOMAIN snaps :
        (snaps[P].owner = snaps[Q].owner /\ snaps[P].born < snaps[Q].born)
            => StrLess(P, Q)

\* C3: retention recency.  A generation that rotate() with keep = k deletes
\* after a successful sync() is not among the k most recently created generations of its (name, tag):
\* at least k generations created after it are on disk when it goes.
RetentionRecency ==
    [][\A p \in Procs, P \in DOMAIN snaps :
          (proc[p].pc = "rmtree" /\ proc[p].res = 0 /\ P \notin DOMAIN snaps')
            => Cardinality({Q \in DOMAIN snaps :
                              /\ snaps[Q].owner = snaps[P].owner
                              /\ snaps[Q].born > snaps[P].born}) >= proc[p].keep]_vars

\* C4: retention bound.  When rotate() with keep = k > 0 has completed without
\* a delete error, min(k, existing_count) generations of (name, tag) remain,
\* existing_count being the number rotate() found; when k >= existing_count
\* every one of them is still there.
RetentionBound ==
    \A p \in Procs :
        (proc[p].pc = "remove" /\ proc[p].keep > 0) =>
            LET list == proc[p].snapshots_list
            IN  /\ Cardinality(Generations(proc[p].name, proc[p].tag))
                       = Min(proc[p].keep, Len(list))
                /\ proc[p].keep >= Len(list)
                       => \A i \in 1..Len(list) : list[i] \in DOMAIN snaps

\* C4 witness: rotate() with keep = 2 found three generations and is done.
RetentionBoundWitness ==
    \E p \in Procs :
        /\ proc[p].pc = "remove"
        /\ proc[p].keep = 2
        /\ Len(proc[p].snapshots_list) = 3

\* C5: retention no-op.  While a process runs rotate() with keep <= 0, no
\* directory under the destination root is created, deleted or changed.
RetentionNoop ==
    [][\A p \in Procs :
          (proc[p].pc \in {"rotate", "rmtree"} /\ proc[p].keep <= 0)
            => snaps' = snaps]_vars

\* C5 witness: rotate() with keep <= 0 has returned, with a generation of
\* the run's tag and one of another tag on disk.
RetentionNoopWitness ==
    \E p \in Procs :
        /\ proc[p].pc = "remove"
        /\ proc[p].keep <= 0
        /\ Generations(proc[p].name, proc[p].tag) # {}
        /\ \E P \in DOMAIN snaps : snaps[P].owner # <<proc[p].name, proc[p].tag>>

\* C6: a run whose sync() returned failure does not run the Rotator: every
\* generation that its rotate() would list is still on disk.
NoRotationAfterFailedSync ==
    \A p \in Procs :
        (proc[p].res > 0 /\ proc[p].pc \in {"rmtree", "remove", "exit"}) =>
            \A i \in 1..Len(proc[p].snapshots_list) :
                proc[p].snapshots_list[i] \in DOMAIN snaps

\* C7: a delete error is not fatal: a run whose Builder succeeded and whose
\* rotate() met a delete error ends with status 0.
DeleteErrorNonFatal ==
    \A p \in Procs :
        (proc[p].pc = "done" /\ proc[p].delerr /\ proc[p].res = 0)
            => proc[p].status = 0

\* C8: sync() goes on to mirroring only after a clone that returned 0, and
\* on to the touch and the sentinel only after a mirroring that returned 0.
NonZeroStatusFails ==
    \A p \in Procs :
        proc[p].pc \in {"rsync", "touch"} => proc[p].result = 0

\* Directory entries, over all generations, that name inode `ino`.
LinkCount(table, ino) ==
    Cardinality({e \in (DOMAIN table) \X Files : table[e[1]].files[e[2]].ino = ino})

\* C9: hard-link sharing.  When the clone of a predecessor and the mirroring
\* into it have both returned 0, a file whose source content equals the predecessor's has the
\* predecessor's inode (link count >= 2), and a file of the source whose
\* content differs from the predecessor's, or is new, has another inode.
HardLinkSharing ==
    [][\A p \in Procs :
          LET me == proc[p]
          IN  (/\ me.pc = "rsync"
               /\ me.result = 0
               /\ proc'[p].pc = "touch"
               /\ proc'[p].result = 0
               /\ me.last_snapshot \in DOMAIN snaps)
              => \A f \in Files :
                    LET old == snaps[me.last_snapshot].files[f]
                        new == snaps'[me.current_snapshot].files[f]
                    IN  /\ (src[f] # None /\ src[f] = old.data)
                            => /\ new.ino = old.ino
                               /\ LinkCount(snaps', new.ino) >= 2
                        /\ (src[f] # None /\ src[f] # old.data)
                            => new.ino # old.ino]_vars

\* C10: generation immutability.  A generation whose sync() has returned 0
\* is changed by no later step, except that rotate() removes it whole.
GenerationImmutable ==
    [][\A P \in built :
          P \notin DOMAIN snaps' \/ snaps'[P] = snaps[P]]_vars

\* C11: one new generation per successful sync().  When sync() has returned 0
\* after a mirroring that returned 0, the directory it named is none of the
\* generations it listed at its start, and (name, tag) has one generation more
\* than that list.
OneNewGeneration ==
    \A p \in Procs :
        LET me == proc[p]
        IN  (me.pc = "rotate" /\ me.res = 0 /\ me.result = 0) =>
                /\ \A i \in 1..Len(me.snapshots_list) :
                        me.snapshots_list[i] # me.current_snapshot
                /\ Cardinality(Generations(me.name, me.tag))
                       = Len(me.snapshots_list) + 1

\* C12: exit status.  A process that ends exits with status 0 or 1, and with
\* 0 exactly when its sync() had returned 0: every other end (non-Linux host,
\* lock contention, invalid destination, clone failure, mirroring failure)
\* has status 1.
ExitStatus ==
    [][\A p \in Procs :
          (proc'[p].pc = "done" /\ proc'[p] # proc[p]) =>
              /\ proc'[p].status \in {0, 1}
              /\ proc'[p].status = 0
                    <=> (/\ proc[p].pc \in {"rotate", "rmtree", "remove", "exit"}
                         /\ proc[p].res = 0)]_vars

\* Process q is an invocation that has started and not ended.
Alive(q) == proc[q].pc \notin {"idle", "done"}

\* No invocation other than p with the name of p is alive.
Alone(p) ==
    \A q \in Procs \ {p} : Alive(q) => proc[q].name # proc[p].name

NameIndependence ==
    [][\A p \in Procs :
          LET me == proc[p]
              mine == <<me.name, me.tag>>
          IN  /\ (me.pc = "sync" /\ proc'[p].pc = "cp")
                    => snaps[proc'[p].last_snapshot].owner = mine
              /\ (me.pc = "rmtree" /\ proc'[p].delete_list # me.delete_list)
                    => \A P \in DOMAIN snaps \ DOMAIN snaps' :
                          snaps[P].owner = mine]_vars

\* C14 witness: a run has selected a predecessor and its rotate() has deleted
\* a generation, while a generation of another name is on disk and a run with
\* that other name is in its Builder or Rotator.
NameIndependenceWitness ==
    \E p, q \in Procs :
        /\ proc[p].pc = "remove"
        /\ proc[p].last_snapshot # <<>>
        /\ proc[p].keep = 1
        /\ Len(proc[p].snapshots_list) = 2
        /\ Working(q)
        /\ proc[q].name # proc[p].name
        /\ Generations(proc[q].name, proc[q].tag) # {}

\* C15: the new generation survives its own rotation.  When sync() has
\* returned 0 after a mirroring that returned 0 and rotate() with keep >= 1
\* has then completed, the generation that sync() named is on disk.
NewGenerationSurvives ==
    \A p \in Procs :
        (/\ proc[p].pc \in {"remove", "exit"}
         /\ proc[p].res = 0
         /\ proc[p].result = 0
         /\ proc[p].keep >= 1)
            => proc[p].current_snapshot \in DOMAIN snaps

\* C16: completion sentinel.  A generation directory holds a sentinel file
\* "_backup_<date>" only if the sync() that built it has returned 0, and then
\* it holds exactly one.
CompletionSentinel ==
    \A P \in DOMAIN snaps :
        /\ snaps[P].marks # {} => P \in built
        /\ P \in built => Cardinality(snaps[P].marks) = 1

\* C17: clone error.  When the clone of the predecessor returns an error
\* code, sync() does not go on to the mirroring step, and the failed clone
\* leaves every directory under the destination root as it was: no new
\* generation, the predecessor unchanged.
CloneErrorLeavesNothing ==
    [][\A p \in Procs :
          (proc[p].pc = "cp" /\ proc'[p].pc # "cp" /\ proc'[p].result > 0)
            => /\ proc'[p].pc # "rsync"
               /\ snaps' = snaps]_vars

\* C18: mirroring error.  When sync() has returned the error code of rsync,
\* the directory it was writing is not removed by the rest of the run,
\* whatever keep is and whatever generations were there before.
SyncErrorKeepsPartial ==
    [][\A p \in Procs :
          LET me == proc[p]
          IN  (/\ me.pc \in {"rotate", "rmtree"}
               /\ me.res > 0
               /\ me.res \in RsyncCodes
               /\ me.current_snapshot \in DOMAIN snaps)
                => me.current_snapshot \in DOMAIN snaps']_vars

====
